---- MODULE Spec2Model ----
(***************************************************************************)
(* Model of rastervision/backend/torch_utils/model.py:                     *)
(*   get_out_channels, resnet_fpn_backbone and MyFasterRCNN.               *)
(* One behaviour is the life of one adapter: MyFasterRCNN.__init__ builds  *)
(* the backbone step by step, then the harness calls forward on a batch.   *)
(* Tensors are sequences; a BoxList is a record of a box sequence and a    *)
(* mapping from field name to a per-box sequence; BoxList objects live in  *)
(* a heap so that identity and mutation are visible.                       *)
(***************************************************************************)
EXTENDS Integers, Sequences, FiniteSets, TLC

\* ---------------------------------------------------------------- bounds
\* Images in a batch, and BoxLists in a target list.
MaxBatch == 2
\* Ground-truth boxes of one target.
MaxBoxes == 2
\* Smallest component of a loss record.
MaxLoss == 1
\* Detections the detector returns for one image.
MaxDets == 2

\* Python's None, and a value that is not None.
None == <<>>

Some(x) == <<x>>

NoError == "none"

\* ---------------------------------------------------- backbone: the names
Stages == <<"layer1", "layer2", "layer3", "layer4">>

StageSet == {Stages[i] : i \in 1..Len(Stages)}

\* Keys of torchvision's resnet module dictionary that build a network.
ResnetFamily == {"resnet18", "resnet50"}

\* Keys of the module dictionary that are present but are not constructors
\* taking (pretrained, norm_layer).
OtherModuleKeys == {"ResNet", "model_urls"}

\* Architecture names a caller may pass.
BackboneNames == ResnetFamily \cup OtherModuleKeys \cup {"vgg16", ""}

\* named_parameters() of the base network, as dotted paths.  The batch norm
\* layers are FrozenBatchNorm2d, which holds buffers and no parameters.
ParamNames ==
    {<<"conv1", "weight">>, <<"fc", "weight">>, <<"fc", "bias">>}
    \cup {<<s, "0", c, "weight">> : s \in StageSet, c \in {"conv1", "conv2"}}

\* Channel dimension of each stage's output, per architecture.
StageChannels(name, stage) ==
    LET base == IF name = "resnet18" THEN 64 ELSE 256
    IN  CASE stage = "layer1" -> base
          [] stage = "layer2" -> base * 2
          [] stage = "layer3" -> base * 4
          [] stage = "layer4" -> base * 8

\* Python's  s in name  on a dotted parameter name.
Contains(name, s) == \E i \in 1..Len(name) : name[i] = s

\* A lookup that accepts every key of the module dictionary.
ResnetLookup_AnyKey(name) ==
    IF name \in ResnetFamily \cup OtherModuleKeys THEN "ok" ELSE "KeyError"

\* resnet.__dict__[backbone_name](pretrained=..., norm_layer=...)
ResnetLookup(name) ==
    IF name \in ResnetFamily THEN "ok"
    ELSE IF name \in OtherModuleKeys THEN "TypeError"
    ELSE "KeyError"

\* A freeze test that selects layer1 only.
ShouldFreeze_Layer1Only(name) == Contains(name, "layer1")

\* The test of the freeze loop: the parameter gets requires_grad_(False).
ShouldFreeze(name) ==
    /\ ~Contains(name, "layer2")
    /\ ~Contains(name, "layer3")
    /\ ~Contains(name, "layer4")

out_channels == 256

\* ------------------------------------------------------- BoxList container
BoxList(boxes, extras) == [boxes |-> boxes, extras |-> extras]

get_field(bl, name) ==
    IF name \in DOMAIN bl.extras THEN bl.extras[name] ELSE <<>>

SwapCoords(box) == <<box[2], box[1], box[4], box[3]>>

xyxy(bl) ==
    BoxList([i \in 1..Len(bl.boxes) |-> SwapCoords(bl.boxes[i])], bl.extras)

yxyx(bl) ==
    BoxList([i \in 1..Len(bl.boxes) |-> SwapCoords(bl.boxes[i])], bl.extras)

RECURSIVE MaskSelect(_, _)
MaskSelect(s, mask) ==
    IF s = <<>> THEN <<>>
    ELSE IF Head(mask) THEN <<Head(s)>> \o MaskSelect(Tail(s), Tail(mask))
    ELSE MaskSelect(Tail(s), Tail(mask))

ind_filter(bl, inds) ==
    BoxList(MaskSelect(bl.boxes, inds),
            [k \in DOMAIN bl.extras |-> MaskSelect(bl.extras[k], inds)])

\* ------------------------------------------------------------ input sets
\* Height and width of the images of a batch.
Shapes == {<<2, 3>>}

\* Ground-truth boxes in min-row/min-col/max-row/max-col order, each with
\* its label.
GroundTruth == {<<<<0, 1, 2, 3>>, 1>>, <<<<1, 0, 2, 2>>, 2>>}

RECURSIVE SeqsUpTo(_, _)
SeqsUpTo(S, n) ==
    IF n = 0 THEN {<<>>}
    ELSE LET shorter == SeqsUpTo(S, n - 1)
         IN  shorter \cup {Append(s, x) : s \in shorter, x \in S}

SeqsOfLen(S, n) == {s \in SeqsUpTo(S, n) : Len(s) = n}

TargetBoxLists ==
    {BoxList([i \in 1..Len(e) |-> e[i][1]],
             "labels" :> [i \in 1..Len(e) |-> e[i][2]]) :
        e \in SeqsUpTo(GroundTruth, MaxBoxes)}

\* The targets argument: None, or a list of BoxLists.
TargetArgs == {None} \cup {Some(t) : t \in SeqsUpTo(TargetBoxLists, MaxBatch)}

\* The input argument: a tensor of shape <n, 3, h, w> with n >= 1.
Inputs ==
    {[n |-> n, h |-> hw[1], w |-> hw[2]] : n \in 1..MaxBatch, hw \in Shapes}

\* ------------------------------------------------- the underlying detector
ComponentNames ==
    {"loss_box_reg", "loss_classifier", "loss_objectness", "loss_rpn_box_reg"}

subloss_names ==
    <<"total_loss", "loss_box_reg", "loss_classifier", "loss_objectness",
      "loss_rpn_box_reg">>

\* The four components of a loss record, all different.
FourLosses(v) ==
    ("loss_box_reg" :> v) @@ ("loss_classifier" :> v + 1)
        @@ ("loss_objectness" :> v + 2) @@ ("loss_rpn_box_reg" :> v + 3)

\* Records the detector may return in training mode: the four components,
\* or the four components and one more entry.
LossRecords ==
    {FourLosses(v) : v \in 1..MaxLoss}
    \cup {FourLosses(v) @@ ("loss_mask" :> v + 4) : v \in 1..MaxLoss}

\* One detection: a box in min-col/min-row/max-col/max-row order, a label
\* (0 is the background id) and a score in percent, above the 0.05 cutoff.
DetPool == {<<<<1, 0, 3, 2>>, 0, 90>>, <<<<0, 1, 2, 2>>, 1, 80>>}

DetDicts ==
    {[boxes |-> [i \in 1..Len(e) |-> e[i][1]],
      labels |-> [i \in 1..Len(e) |-> e[i][2]],
      scores |-> [i \in 1..Len(e) |-> e[i][3]]] :
        e \in SeqsUpTo(DetPool, MaxDets)}

\* Per-image outputs the detector may return in inference mode.
DetOutputs(n) == SeqsOfLen(DetDicts, n)

\* The detector rejects a batch whose target count differs from its image
\* count, and a target without boxes.
DetectorError(n, det_targets) ==
    IF Len(det_targets) # n THEN "BatchSizeMismatch"
    ELSE IF \E i \in 1..Len(det_targets) : Len(det_targets[i].boxes) = 0
         THEN "EmptyTarget"
    ELSE NoError

\* ------------------------------------------------------ MyFasterRCNN.forward
\* Python truth value of the targets argument.
Truthy(t) == t # None /\ Len(t[1]) > 0

Min(a, b) == IF a < b THEN a ELSE b

\* Number of pairs produced by zip(input, targets).
ZipLen(inp, t) == Min(inp.n, Len(t[1]))

\* A loop body that writes the bogus box as [0, 0, w, h].
AugmentTarget_WidthFirst(y, h, w) ==
    BoxList(y.boxes \o <<<<0, 0, w, h>>>>,
            "labels" :> (get_field(y, "labels") \o <<0>>))

\* The body of the loop over zip(input, targets): the target y extended by
\* the box [0, 0, h, w] and the label 0.
AugmentTarget(y, h, w) ==
    BoxList(y.boxes \o <<<<0, 0, h, w>>>>,
            "labels" :> (get_field(y, "labels") \o <<0>>))

\* new_targets, as BoxList values read through the references in t.
NewTargets(hp, inp, t) ==
    [i \in 1..ZipLen(inp, t) |-> AugmentTarget(hp[t[1][i]], inp.h, inp.w)]

\* A conversion step that leaves the targets in the harness ordering.
XyxyTargets_Skipped(nt) == nt

\* bl.xyxy() for every new target.
XyxyTargets(nt) == [i \in 1..Len(nt) |-> xyxy(nt[i])]

\* The dictionary handed to the detector for one converted target.
TargetDict(bl) == [boxes |-> bl.boxes, labels |-> get_field(bl, "labels")]

RECURSIVE SumOver(_, _)
SumOver(d, keys) ==
    IF keys = {} THEN 0
    ELSE LET k == CHOOSE x \in keys : TRUE
         IN  d[k] + SumOver(d, keys \ {k})

\* A sum that misses one component.
SumValues_MissesOne(d) == SumOver(d, (DOMAIN d) \ {"loss_rpn_box_reg"})

\* sum(list(loss_dict.values()))
SumValues(d) == SumOver(d, DOMAIN d)

\* loss_dict['total_loss'] = sum(list(loss_dict.values()))
WithTotal(d) ==
    [k \in DOMAIN d \cup {"total_loss"} |->
        IF k = "total_loss" THEN SumValues(d) ELSE d[k]]

\* A training branch that appends the bogus box to the caller's BoxLists.
TrainHeap_InPlace(hp, inp, t) ==
    [id \in 1..Len(hp) |->
        IF \E i \in 1..ZipLen(inp, t) : t[1][i] = id
        THEN AugmentTarget(hp[id], inp.h, inp.w)
        ELSE hp[id]]
    \o NewTargets(hp, inp, t) \o XyxyTargets(NewTargets(hp, inp, t))

\* The heap after the training branch: the caller's objects, then the
\* BoxLists of new_targets, then their converted copies.
TrainHeap(hp, inp, t) ==
    hp \o NewTargets(hp, inp, t) \o XyxyTargets(NewTargets(hp, inp, t))

\* BoxList(_out['boxes'], labels=_out['labels'], scores=_out['scores'])
RawBoxList(o) ==
    BoxList(o.boxes, ("labels" :> o.labels) @@ ("scores" :> o.scores))

\* The list boxlists of the inference branch.
OutBoxLists(dets) == [i \in 1..Len(dets) |-> yxyx(RawBoxList(dets[i]))]

\* A mask that keeps every box.
NonZeroInds_KeepAll(bl) == [i \in 1..Len(bl.boxes) |-> TRUE]

\* labels != 0
NonZeroInds(bl) ==
    [i \in 1..Len(bl.boxes) |-> get_field(bl, "labels")[i] # 0]

\* One step of the loop that removes the background boxes.
RemoveBackground(bl) == ind_filter(bl, NonZeroInds(bl))

NewBoxLists(bls) == [i \in 1..Len(bls) |-> RemoveBackground(bls[i])]

\* The heap after the inference branch.
InferHeap(hp, dets) ==
    hp \o [i \in 1..Len(dets) |-> RawBoxList(dets[i])]
       \o OutBoxLists(dets) \o NewBoxLists(OutBoxLists(dets))

\* ------------------------------------------------------------------ state
VARIABLES
    pc,          \* position in the adapter's life
    backbone_name, \* the backbone_name argument of the build
    backbone,    \* the base network: its name and requires_grad flags
    hooks,       \* number of forward hooks registered on each stage
    out,         \* the dictionary out of get_out_channels
    passes,      \* forward passes run through the base network
    hookCalls,   \* calls of save_output made after the build returned
    fpn,         \* the BackboneWithFPN returned by resnet_fpn_backbone
    err,         \* the exception raised by the build
    input,       \* forward's input argument
    targets,     \* forward's targets argument: None or BoxList references
    heap,        \* the BoxList objects, by reference
    detCall,     \* the arguments of the call of self.model
    detOut,      \* what self.model returned
    ret          \* what forward returned or raised

vars == <<pc, backbone_name, backbone, hooks, out, passes, hookCalls, fpn,
          err, input,
          targets, heap, detCall, detOut, ret>>

buildVars ==
    <<backbone_name, backbone, hooks, out, passes, hookCalls, fpn, err>>

callVars == <<input, targets, heap, detCall, detOut, ret>>

EmptyDict == [k \in {} |-> 0]

Init ==
    /\ pc = "start"
    /\ backbone_name = None
    /\ backbone = None
    /\ hooks = [s \in StageSet |-> 0]
    /\ out = EmptyDict
    /\ passes = 0
    /\ hookCalls = 0
    /\ fpn = None
    /\ err = NoError
    /\ input = None
    /\ targets = None
    /\ heap = <<>>
    /\ detCall = None
    /\ detOut = None
    /\ ret = None

\* ---------------------------------------------------- resnet_fpn_backbone
\* backbone = resnet.__dict__[backbone_name](pretrained=..., norm_layer=...)
Instantiate ==
    /\ pc = "start"
    /\ \E name \in BackboneNames, pretrained \in BOOLEAN :
          /\ backbone_name' = Some(name)
          /\ IF ResnetLookup(name) = "ok"
             THEN /\ backbone' = Some([name |-> name,
                                       requires_grad |->
                                           [p \in ParamNames |-> TRUE]])
                  /\ pc' = "freeze"
                  /\ err' = err
             ELSE /\ err' = ResnetLookup(name)
                  /\ pc' = "failed"
                  /\ backbone' = backbone
    /\ UNCHANGED <<hooks, out, passes, hookCalls, fpn>>
    /\ UNCHANGED callVars

\* for name, parameter in backbone.named_parameters(): ...
FreezeLayers ==
    /\ pc = "freeze"
    /\ backbone' = Some([backbone[1] EXCEPT !.requires_grad =
                            [p \in ParamNames |->
                                IF ShouldFreeze(p) THEN FALSE ELSE @[p]]])
    /\ pc' = "hooks"
    /\ UNCHANGED <<backbone_name, hooks, out, passes, hookCalls, fpn, err>>
    /\ UNCHANGED callVars

\* get_out_channels: the four register_forward_hook calls.
RegisterHooks ==
    /\ pc = "hooks"
    /\ hooks' = [s \in StageSet |-> hooks[s] + 1]
    /\ out' = EmptyDict
    /\ pc' = "dummy"
    /\ UNCHANGED <<backbone_name, backbone, passes, hookCalls, fpn, err>>
    /\ UNCHANGED callVars

\* The stages whose hooks run during one pass through the base network.
Hooked(hk) == {s \in StageSet : hk[s] > 0}

\* The dictionary out after one pass: save_output writes output.shape[1].
SaveOutputs(name, hk, o) ==
    [s \in DOMAIN o \cup Hooked(hk) |->
        IF s \in Hooked(hk) THEN StageChannels(name, s) ELSE o[s]]

\* The number of save_output calls made by one pass.
CallsPerPass(hk) == hk["layer1"] + hk["layer2"] + hk["layer3"] + hk["layer4"]

\* get_out_channels: model(torch.empty((1, 3, 128, 128)))
DummyForward ==
    /\ pc = "dummy"
    /\ out' = SaveOutputs(backbone[1].name, hooks, out)
    /\ passes' = passes + 1
    /\ pc' = "wrap"
    /\ UNCHANGED <<backbone_name, backbone, hooks, hookCalls, fpn, err>>
    /\ UNCHANGED callVars

\* get_out_channels returns the list, leaving its hooks registered;
\* BackboneWithFPN wraps the network.
Wrap ==
    /\ pc = "wrap"
    /\ fpn' = Some([body |-> backbone[1].name,
                    return_layers |-> Stages,
                    in_channels_list |->
                        [i \in 1..Len(Stages) |-> out[Stages[i]]],
                    out_channels |-> out_channels])
    /\ pc' = "ready"
    /\ UNCHANGED <<backbone_name, backbone, hooks, out, passes, hookCalls, err>>
    /\ UNCHANGED callVars

\* ------------------------------------------------------------ forward
\* The harness calls forward(input, targets) with its own BoxLists.
Call ==
    /\ pc = "ready"
    /\ \E inp \in Inputs, t \in TargetArgs :
          /\ input' = Some(inp)
          /\ heap' = IF t = None THEN <<>> ELSE t[1]
          /\ targets' = IF t = None THEN None
                        ELSE Some([i \in 1..Len(t[1]) |-> i])
    /\ pc' = "called"
    /\ UNCHANGED <<detCall, detOut, ret>>
    /\ UNCHANGED buildVars

\* self.model runs the base network once: every registered hook is called.
BackbonePass ==
    /\ out' = SaveOutputs(backbone[1].name, hooks, out)
    /\ passes' = passes + 1
    /\ hookCalls' = hookCalls + CallsPerPass(hooks)

\* The targets handed to self.model.
DetTargets(hp, inp, t) ==
    [i \in 1..ZipLen(inp, t) |->
        TargetDict(XyxyTargets(NewTargets(hp, inp, t))[i])]

\* if targets: ... return loss_dict
TrainBranch ==
    /\ Truthy(targets)
    /\ heap' = TrainHeap(heap, input[1], targets)
    /\ detCall' = Some([images |-> input[1],
                        targets |-> Some(DetTargets(heap, input[1], targets))])
    /\ IF DetectorError(input[1].n, DetTargets(heap, input[1], targets))
              # NoError
       THEN /\ ret' = Some([kind |-> "raise",
                            value |-> Some(DetectorError(input[1].n,
                                        DetTargets(heap, input[1], targets)))])
            /\ detOut' = None
            /\ UNCHANGED <<out, passes, hookCalls>>
       ELSE /\ \E ld \in LossRecords :
                  /\ detOut' = Some(ld)
                  /\ ret' = Some([kind |-> "loss",
                                  value |-> Some(WithTotal(ld))])
            /\ BackbonePass

\* out = self.model(input) ... return new_boxlists
InferBranch ==
    /\ ~Truthy(targets)
    /\ detCall' = Some([images |-> input[1], targets |-> None])
    /\ \E dets \in DetOutputs(input[1].n) :
          /\ detOut' = Some(dets)
          /\ heap' = InferHeap(heap, dets)
          /\ ret' = Some([kind |-> "preds",
                          value |-> Some([i \in 1..Len(dets) |->
                                        Len(heap) + (2 * Len(dets)) + i])])
    /\ BackbonePass

Forward ==
    /\ pc = "called"
    /\ pc' = "done"
    /\ TrainBranch \/ InferBranch
    /\ UNCHANGED <<backbone_name, backbone, hooks, fpn, err, input, targets>>

Next ==
    \/ Instantiate
    \/ FreezeLayers
    \/ RegisterHooks
    \/ DummyForward
    \/ Wrap
    \/ Call
    \/ Forward

Spec == Init /\ [][Next]_vars

\* ------------------------------------------------------------ properties
Built == pc \in {"ready", "called", "done"}

Done == pc = "done"

Kind == ret[1].kind

\* The training branch ran: self.model was called with targets.
RanTraining == Done /\ detCall[1].targets # None

\* The inference branch ran: self.model was called with the images alone.
RanInference == Done /\ detCall[1].targets = None

\* The number of image/target pairs of the call.
Pairs == Min(input[1].n, Len(targets[1]))

Swapped(b) == <<b[2], b[1], b[4], b[3]>>

\* C1: in a training-mode call, for every image/target pair with k boxes,
\* the augmented target is a BoxList with the k original boxes and labels in
\* order followed by the box [0, 0, h, w] with label 0, and the target the
\* detector receives has k+1 boxes and k+1 labels, the same ones in the
\* detector's ordering; so no target the detector receives is empty.
C1_BogusBoxAppended ==
    [][(pc = "called" /\ Truthy(targets)) =>
        \A i \in 1..Pairs :
            LET y == heap[targets[1][i]]
                k == Len(y.boxes)
                nt == heap'[Len(heap) + i]
                dt == detCall'[1].targets[1][i]
            IN  /\ Len(nt.boxes) = k + 1
                /\ SubSeq(nt.boxes, 1, k) = y.boxes
                /\ nt.boxes[k + 1] = <<0, 0, input[1].h, input[1].w>>
                /\ nt.extras["labels"] = y.extras["labels"] \o <<0>>
                /\ Len(dt.boxes) = k + 1
                /\ Len(dt.labels) = k + 1
                /\ dt.labels = y.extras["labels"] \o <<0>>
                /\ \A j \in 1..k : dt.boxes[j] = Swapped(y.boxes[j])
                /\ dt.boxes[k + 1] = <<0, 0, input[1].w, input[1].h>>
    ]_vars

\* A training call returned losses for a batch holding a target without
\* boxes and a target with two boxes.
C1_Witness ==
    /\ RanTraining
    /\ Kind = "loss"
    /\ \E i \in 1..Len(detCall[1].targets[1]) :
          /\ Len(heap[i].boxes) = 0
          /\ Len(detCall[1].targets[1][i].boxes) = 1
    /\ \E i \in 1..Len(detCall[1].targets[1]) :
          /\ Len(heap[i].boxes) = 2
          /\ Len(detCall[1].targets[1][i].boxes) = 3

FourSum(d) ==
    d["loss_box_reg"] + d["loss_classifier"] + d["loss_objectness"]
        + d["loss_rpn_box_reg"]

KeptInds(d) == {j \in 1..Len(d.labels) : d.labels[j] # 0}

Rank(d, j) == Cardinality({k \in KeptInds(d) : k <= j})

InStage(p, stage) == p[1] = stage

\* C4 as stated: after the build, every layer1 parameter is frozen and
\* every parameter of layer2, layer3, layer4 and of the stem is trainable.
C4_OnlyLayer1Frozen ==
    Built =>
        \A p \in ParamNames :
            backbone[1].requires_grad[p] = ~InStage(p, "layer1")

\* C4 amended: after the build, every parameter outside layer2, layer3 and
\* layer4 (the layer1 parameters, the stem convolution and the final fully
\* connected layer) is frozen, and every parameter of layer2, layer3 and
\* layer4 is trainable.
C4_AllButLayers234Frozen ==
    Built =>
        \A p \in ParamNames :
            backbone[1].requires_grad[p] =
                (InStage(p, "layer2") \/ InStage(p, "layer3")
                    \/ InStage(p, "layer4"))

\* The build returned with the stem and layer1 frozen, layer2 trainable.
C4_Witness ==
    /\ pc = "ready"
    /\ ~backbone[1].requires_grad[<<"conv1", "weight">>]
    /\ ~backbone[1].requires_grad[<<"layer1", "0", "conv1", "weight">>]
    /\ backbone[1].requires_grad[<<"layer2", "0", "conv1", "weight">>]

\* C5: forward runs the training algorithm exactly when a target set is
\* supplied, a target set of length zero included, and the inference
\* algorithm exactly when targets is absent.
C5_ModeByPresence ==
    Done =>
        /\ RanTraining <=> targets # None
        /\ RanInference <=> targets = None
        /\ Kind = "preds" <=> targets = None

\* C6: a build with a name outside the recognized family fails before any
\* forward pass, before any parameter is frozen and before any hook is
\* registered, and returns no backbone.
C6_UnknownNameFailsFirst ==
    (pc # "start" /\ backbone_name[1] \notin ResnetFamily) =>
        /\ pc = "failed"
        /\ err \in {"KeyError", "TypeError"}
        /\ passes = 0
        /\ hookCalls = 0
        /\ \A st \in StageSet : hooks[st] = 0
        /\ out = EmptyDict
        /\ backbone = None
        /\ fpn = None

\* A build failed on a name that is a key of the module but no constructor.
C6_Witness ==
    /\ pc = "failed"
    /\ backbone_name = Some("ResNet")
    /\ err = "TypeError"

C8_HooksRemoved ==
    Built =>
        /\ \A st \in StageSet : hooks[st] = 0
        /\ hookCalls = 0

\* C9: in a training-mode call with n images and m targets the detector is
\* called with exactly m converted targets, so that a mismatch between m and
\* n reaches the detector and its error reaches the caller.
C9_MismatchSurfaces ==
    RanTraining =>
        /\ Len(detCall[1].targets[1]) = Len(targets[1])
        /\ (Len(targets[1]) # input[1].n => Kind = "raise")

\* C10: a training-mode call, returning or raising, leaves every BoxList
\* of the caller as it was (boxes, ordering, count, labels); the augmented
\* and converted targets are new objects.
C10_InputsNotMutated ==
    [][(pc = "called" /\ Truthy(targets)) =>
        /\ targets' = targets
        /\ Len(heap') = Len(heap) + (2 * Pairs)
        /\ \A id \in 1..Len(heap) : heap'[id] = heap[id]
        /\ \A i \in 1..Pairs :
              /\ Len(heap'[targets[1][i]].boxes) + 1
                     = Len(heap'[Len(heap) + i].boxes)
              /\ heap'[Len(heap) + Pairs + i].boxes
                     = detCall'[1].targets[1][i].boxes
    ]_vars

\* A training call raised, and another way to end: the detector's error
\* after new targets were built from a caller's target that has boxes.
C10_Witness ==
    /\ RanTraining
    /\ Kind = "raise"
    /\ Len(heap) > Len(targets[1])
    /\ Len(heap[1].boxes) > 0

====
